---- MODULE Spec2Model ----
(***************************************************************************)
(* A model of app.py, the EV growth / oil demand / air pollution           *)
(* dashboard.  The script is executed from top to bottom once per user     *)
(* interaction: it checks that the CSV file exists, loads and normalises   *)
(* it, offers the sidebar controls, filters the table and, when the        *)
(* Generate button was pressed for that run, renders averages, charts and  *)
(* insights.                                                               *)
(*                                                                         *)
(* Text is modelled as a sequence of one-character strings so that         *)
(* str.strip, str.replace and str.lower are computed, not assumed.         *)
(* Floating point cells are counted in halves (the number 10.5 is 21), so  *)
(* that sums and comparisons of averages are exact.                        *)
(***************************************************************************)
EXTENDS Integers, Sequences, FiniteSets, TLC

\* ------------------------------------------------------------------ bounds
\* rows of the input file
MaxRows == 2
\* characters of padding on each side of a raw header
MaxPad == 2

\* ------------------------------------------------------------- characters
BOM == "BOM"
Uppers == <<"A","B","C","D","E","F","G","H","I","J","K","L","M",
            "N","O","P","Q","R","S","T","U","V","W","X","Y","Z">>
Lowers == <<"a","b","c","d","e","f","g","h","i","j","k","l","m",
            "n","o","p","q","r","s","t","u","v","w","x","y","z">>
\* the characters of the model in code point order (the order of sorted())
Alphabet == <<"\t", " ">> \o <<"0","1","2","3","4","5","6","7","8","9">>
            \o Uppers \o <<"_">> \o Lowers \o <<BOM>>
Whitespace == {"\t", " "}

\* the function with f[ks[i]] = vs[i]
RECURSIVE Zip(_, _)
Zip(ks, vs) ==
    IF Len(ks) = 1 THEN Head(ks) :> Head(vs)
    ELSE (Head(ks) :> Head(vs)) @@ Zip(Tail(ks), Tail(vs))

\* the code point order of the characters
OrdOf == Zip(Alphabet, [i \in 1..Len(Alphabet) |-> i])
Ord(c) == OrdOf[c]

LowerOf == Zip(Uppers, Lowers)
UpperOf == Zip(Lowers, Uppers)

\* str.lower() on one character
LowerChar(c) == IF c \in DOMAIN LowerOf THEN LowerOf[c] ELSE c

UpperChar(c) == IF c \in DOMAIN UpperOf THEN UpperOf[c] ELSE c

\* str.lower()
Lower(s) == [i \in 1..Len(s) |-> LowerChar(s[i])]

Upper(s) == [i \in 1..Len(s) |-> UpperChar(s[i])]

\* str.strip(): drops the leading and the trailing whitespace characters
RECURSIVE LStrip(_)
LStrip(s) ==
    IF s # <<>> /\ Head(s) \in Whitespace THEN LStrip(Tail(s)) ELSE s

RECURSIVE RStrip(_)
RStrip(s) ==
    IF s # <<>> /\ s[Len(s)] \in Whitespace
    THEN RStrip(SubSeq(s, 1, Len(s) - 1))
    ELSE s

Strip(s) == RStrip(LStrip(s))

\* str.replace("\ufeff", ""): drops every byte-order-mark
RemoveBOM(s) == SelectSeq(s, LAMBDA c : c # BOM)

\* s < t for str, by code points
RECURSIVE StrLess(_, _)
StrLess(s, t) ==
    IF t = <<>> THEN FALSE
    ELSE IF s = <<>> THEN TRUE
    ELSE IF Head(s) # Head(t) THEN Ord(Head(s)) < Ord(Head(t))
    ELSE StrLess(Tail(s), Tail(t))

\* --------------------------------------------------------------- headers
cYear == <<"Y","e","a","r">>
cMonth == <<"M","o","n","t","h">>
cRegion == <<"R","e","g","i","o","n">>
cEV == <<"E","V","_","S","h","a","r","e","_","p","c","t">>
cOil == <<"O","i","l","_","D","e","m","a","n","d","_","m","b","d">>
cPM == <<"G","l","o","b","a","l","_","P","M","2","5","_","u","g","_","m","3">>

\* the canonical column names, in the order of the columns of the file
Canonical == <<cYear, cMonth, cRegion, cEV, cOil, cPM>>

\* the alias table: lower-cased name -> canonical name
mapping == Zip(<<Lower(cYear), Lower(cMonth), Lower(cRegion),
                 Lower(cEV), Lower(cOil), Lower(cPM)>>, Canonical)

\* df.columns = [c.strip().replace("\ufeff", "") for c in df.columns]
CleanHeader(c) == RemoveBOM(Strip(c))

\* the rename loop, for one column label
RenameAs(c, lowered) == IF lowered \in DOMAIN mapping THEN mapping[lowered] ELSE c

RenameHeader(c) == RenameAs(c, Lower(c))

\* lines 52-61 on the header row
RECURSIVE NormalizeColumns(_)
NormalizeColumns(cols) ==
    IF cols = <<>> THEN <<>>
    ELSE <<RenameHeader(CleanHeader(Head(cols)))>> \o NormalizeColumns(Tail(cols))

\* ----------------------------------------------------------------- cells
\* a missing value (NaN, pd.NA, None) and a present one
Null == <<>>
Some(x) == <<x>>

\* A raw cell of a numeric column, as read_csv delivers it: an integer
\* literal, a literal with a fractional part (val + 1/2), text that is no
\* number, or an empty cell.
IntCell(n) == [kind |-> "int", val |-> n]
FracCell(n) == [kind |-> "frac", val |-> n]
TextCell == [kind |-> "text", val |-> 0]
EmptyCell == [kind |-> "empty", val |-> 0]

\* pd.to_numeric(..., errors="coerce") on one cell: the number in halves,
\* or NaN
ToNumeric(cell) ==
    CASE cell.kind = "int" -> Some(2 * cell.val)
      [] cell.kind = "frac" -> Some(2 * cell.val + 1)
      [] OTHER -> Null

\* .astype("Int64") raises on a float that is no whole number
Int64Raises(v) == v # Null /\ v[1] % 2 = 1

\* .astype("Int64") on one value that is a whole number or NaN
AsInt64(v) == IF v = Null THEN Null ELSE Some(v[1] \div 2)

sNan == <<"n","a","n">>
sAll == <<"A","l","l">>

\* .astype(str).str.strip() on one cell of Region.  astype(str) turns a
\* missing cell into the text "nan" up to pandas 2 and leaves it missing
\* from pandas 3 on: keepsNull says which library the run has.
AsStrStripped(cell, keepsNull) ==
    IF cell = Null
    THEN (IF keepsNull THEN Null ELSE Some(sNan))
    ELSE Some(Strip(cell[1]))

MetricColumns == <<"EV_Share_pct", "Oil_Demand_mbd", "Global_PM25_ug_m3">>

\* lines 63-67 on one row
CoerceRow(r, keepsNull) ==
    [Year |-> AsInt64(ToNumeric(r.Year)),
     Month |-> AsInt64(ToNumeric(r.Month)),
     Region |-> AsStrStripped(r.Region, keepsNull),
     EV_Share_pct |-> ToNumeric(r.EV_Share_pct),
     Oil_Demand_mbd |-> ToNumeric(r.Oil_Demand_mbd),
     Global_PM25_ug_m3 |-> ToNumeric(r.Global_PM25_ug_m3)]

\* df["Year"], df["Month"], ... raise KeyError when the label is no column
KeyErrorRaised(cols) ==
    LET labels == {cols[j] : j \in 1..Len(cols)}
    IN \E i \in 1..Len(Canonical) : Canonical[i] \notin labels

\* the Int64 casts of lines 63-64 raise TypeError
TypeErrorRaised(rows) ==
    \E i \in 1..Len(rows) :
        Int64Raises(ToNumeric(rows[i].Year)) \/ Int64Raises(ToNumeric(rows[i].Month))

\* the exception lines 63-67 end with for the normalised header row cols,
\* "" when they complete
LoadException(cols, rows) ==
    IF KeyErrorRaised(cols) THEN "KeyError"
    ELSE IF TypeErrorRaised(rows) THEN "TypeError"
    ELSE ""

\* the Table of a load that completes
RECURSIVE LoadTable(_, _)
LoadTable(rows, keepsNull) ==
    IF rows = <<>> THEN <<>>
    ELSE <<CoerceRow(Head(rows), keepsNull)>> \o LoadTable(Tail(rows), keepsNull)

\* -------------------------------------------------------------- controls
\* sorted(set of integers)
RECURSIVE SortedInts(_)
SortedInts(S) ==
    IF S = {} THEN <<>>
    ELSE LET m == CHOOSE x \in S : \A y \in S : x <= y
         IN <<m>> \o SortedInts(S \ {m})

\* sorted(set of str)
RECURSIVE SortedStrs(_)
SortedStrs(S) ==
    IF S = {} THEN <<>>
    ELSE LET m == CHOOSE x \in S : \A y \in S \ {x} : StrLess(x, y)
         IN <<m>> \o SortedStrs(S \ {m})

\* years = sorted(df["Year"].dropna().unique())
YearOptions(table) ==
    SortedInts({table[i].Year[1] : i \in {j \in 1..Len(table) : table[j].Year # Null}})

\* regions = ["All"] + sorted(df["Region"].dropna().unique().tolist())
RegionOptions(table) ==
    <<sAll>> \o
    SortedStrs({table[i].Region[1] : i \in {j \in 1..Len(table) : table[j].Region # Null}})

ChartTypes == <<"Line", "Bar", "Area", "Scatter", "Pie", "Heatmap">>

\* ---------------------------------------------------------------- filter
\* df[df["Year"] == year_sel]: a missing Year matches nothing
YearMask(table, year) ==
    SelectSeq(table, LAMBDA r : r.Year # Null /\ r.Year = year)

\* df_filtered[df_filtered["Region"] == region_sel]
RegionMask(table, region) ==
    SelectSeq(table, LAMBDA r : r.Region # Null /\ r.Region[1] = region)

\* a variant of Filter that applies the Region mask to the whole Table
FilterForgetsYear(table, year, region) ==
    IF region # sAll
    THEN RegionMask(table, region)
    ELSE YearMask(table, year)

\* lines 117-119
Filter(table, year, region) ==
    IF region # sAll
    THEN RegionMask(YearMask(table, year), region)
    ELSE YearMask(table, year)

\* ------------------------------------------------------------ aggregates
\* the non-null values of one column of a view
RECURSIVE NonNull(_, _)
NonNull(view, col) ==
    IF view = <<>> THEN <<>>
    ELSE (IF Head(view)[col] = Null THEN <<>> ELSE <<Head(view)[col][1]>>)
         \o NonNull(Tail(view), col)

RECURSIVE SumSeq(_)
SumSeq(s) == IF s = <<>> THEN 0 ELSE Head(s) + SumSeq(Tail(s))

\* a variant of Mean that divides by the number of rows, null or not
MeanOverAllRows(view, col) ==
    LET vals == NonNull(view, col)
    IN IF vals = <<>>
       THEN [nan |-> TRUE, num |-> 0, den |-> 1]
       ELSE [nan |-> FALSE, num |-> SumSeq(vals), den |-> 2 * Len(view)]

\* Series.mean(): the mean of the non-null values as the fraction num/den
\* (cells are in halves, hence the 2), NaN when there is none
Mean(view, col) ==
    LET vals == NonNull(view, col)
    IN IF vals = <<>>
       THEN [nan |-> TRUE, num |-> 0, den |-> 1]
       ELSE [nan |-> FALSE, num |-> SumSeq(vals), den |-> 2 * Len(vals)]

\* f"{x:.2f}": "nan" for NaN, else x rounded to hundredths, ties to even
Format2f(m) ==
    IF m.nan THEN [nan |-> TRUE, cents |-> 0]
    ELSE LET q == (100 * m.num) \div m.den
             r == (100 * m.num) % m.den
         IN [nan |-> FALSE,
             cents |-> IF 2 * r < m.den THEN q
                       ELSE IF 2 * r > m.den THEN q + 1
                       ELSE IF q % 2 = 0 THEN q ELSE q + 1]

\* lines 132-134: the three st.metric values
MetricDisplays(view) ==
    <<Format2f(Mean(view, "EV_Share_pct")),
      Format2f(Mean(view, "Oil_Demand_mbd")),
      Format2f(Mean(view, "Global_PM25_ug_m3"))>>

\* a variant of GreaterThan that compares with >=
GreaterOrEqual(m, k) == ~m.nan /\ m.num >= k * m.den

\* x > k for a float x and an integer k: False for NaN
GreaterThan(m, k) == ~m.nan /\ m.num > k * m.den

\* ---------------------------------------------------------------- charts
\* one pass of the loop body, lines 139-161: the chart shown for `metric`.
\* Heatmap shows the correlation matrix of the numeric columns and reads
\* no metric.
ChartFor(kind, metric) ==
    IF kind = "Heatmap"
    THEN [kind |-> "Heatmap", y |-> "corr"]
    ELSE [kind |-> kind, y |-> metric]

\* for metric in metrics_sel: ...
RECURSIVE Charts(_, _)
Charts(kind, metrics) ==
    IF metrics = <<>> THEN <<>>
    ELSE <<ChartFor(kind, Head(metrics))>> \o Charts(kind, Tail(metrics))

\* -------------------------------------------------------------- insights
evHigh == "EV adoption is showing strong growth."
evLow == "EV growth remains gradual."
oilHigh == "Oil demand is still high, reflecting fossil dependency."
oilLow == "Oil demand is declining, possibly due to EV adoption."
pmHigh == "Air pollution levels remain high - cleaner transition needed."
pmLow == "Air quality is improving steadily."

\* lines 168-184
Insights(view) ==
    <<IF GreaterThan(Mean(view, "EV_Share_pct"), 10) THEN evHigh ELSE evLow,
      IF GreaterThan(Mean(view, "Oil_Demand_mbd"), 70) THEN oilHigh ELSE oilLow,
      IF GreaterThan(Mean(view, "Global_PM25_ug_m3"), 25) THEN pmHigh ELSE pmLow>>

\* ------------------------------------------------------------------ state
VARIABLES
    fileExists,    \* os.path.exists(file_name)
    rawColumns,    \* the header row of the file, as read_csv returns it
    rawRows,       \* the data rows of the file
    strKeepsNull,  \* astype(str) keeps a missing value missing (pandas 3)
    pc,            \* where the last run of the script ended
    columns,       \* df.columns after line 61
    df,            \* the Table
    years,         \* options of the Year selectbox
    regions,       \* options of the Region selectbox, <<>> when not offered
    year_sel, region_sel, metrics_sel, chart_type, show_data, generate,
    df_filtered,   \* the View
    out,           \* what the last run put on the page
    warned         \* history: a run of this session ended with the warning

vars == <<fileExists, rawColumns, rawRows, strKeepsNull, pc, columns, df, years,
          regions, year_sel, region_sel, metrics_sel, chart_type, show_data,
          generate, df_filtered, out, warned>>

file == <<fileExists, rawColumns, rawRows, strKeepsNull>>

\* an empty page
NoOutput == [error |-> FALSE, warning |-> FALSE, raised |-> "",
             metrics |-> <<>>, charts |-> <<>>, insights |-> <<>>, dump |-> FALSE]

\* a variant of Render that does not test the button
RenderAlways(view, gen, kind, metrics, show) ==
    [NoOutput EXCEPT !.metrics = MetricDisplays(view),
                     !.charts = Charts(kind, metrics),
                     !.insights = Insights(view),
                     !.dump = show]

\* lines 128-193: what a run adds to the page past the empty check
Render(view, gen, kind, metrics, show) ==
    IF gen
    THEN [NoOutput EXCEPT !.metrics = MetricDisplays(view),
                          !.charts = Charts(kind, metrics),
                          !.insights = Insights(view),
                          !.dump = show]
    ELSE NoOutput

\* the selectbox value: the value the session holds when it is an option,
\* else the option of index 0 (None when there is no option)
SelectYearValue(held, opts) ==
    IF held # Null /\ \E i \in 1..Len(opts) : opts[i] = held[1] THEN held
    ELSE IF opts # <<>> THEN Some(opts[1])
    ELSE Null

\* a variant of GenerateSection that warns and does not stop
GenerateSectionNoStop(w, view) ==
    /\ df_filtered' = view
    /\ pc' = IF view = <<>> THEN "stopped_warning" ELSE "done"
    /\ out' = [Render(view, w.generate, w.chart, w.metrics, w.show)
                 EXCEPT !.warning = (view = <<>>)]
    /\ warned' = (warned \/ view = <<>>)

\* lines 121-193 for the View: the empty check, then the page
GenerateSection(w, view) ==
    /\ df_filtered' = view
    /\ IF view = <<>>
       THEN \* lines 121-123: st.warning, st.stop
            /\ pc' = "stopped_warning"
            /\ out' = [NoOutput EXCEPT !.warning = TRUE]
            /\ warned' = TRUE
       ELSE /\ pc' = "done"
            /\ out' = Render(view, w.generate, w.chart, w.metrics, w.show)
            /\ warned' = warned

\* lines 106-119 for the Year value of the selectbox
FilterSection(w, table, year) ==
    /\ year_sel' = year
    /\ region_sel' = w.region
    /\ generate' = w.generate
    /\ GenerateSection(w, Filter(table, year, w.region))

\* lines 100-112 for the loaded Table and its Year options
SidebarSection(w, table, yopts) ==
    /\ df' = table
    /\ years' = yopts
    /\ regions' = RegionOptions(table)
    /\ FilterSection(w, table, SelectYearValue(w.year, yopts))

\* line 102 for the loaded Table
TableSection(w, table) == SidebarSection(w, table, YearOptions(table))

\* lines 63-67 for the exception they end with, if any
CoerceSection(w, exc) ==
    /\ IF exc # ""
       THEN \* the exception ends the run
            /\ pc' = "raised"
            /\ out' = [NoOutput EXCEPT !.raised = exc]
            /\ df' = <<>> /\ years' = <<>> /\ regions' = <<>>
            /\ df_filtered' = <<>>
            /\ year_sel' = w.year /\ region_sel' = w.region /\ generate' = FALSE
            /\ warned' = warned
       ELSE TableSection(w, LoadTable(rawRows, strKeepsNull))

\* lines 49-61 for the normalised header row
LoadSection(w, cols) ==
    /\ columns' = cols
    /\ CoerceSection(w, LoadException(cols, rawRows))

\* a variant of Script without the exists check of lines 45-47
ScriptNoStop(w) ==
    /\ UNCHANGED file
    /\ metrics_sel' = w.metrics
    /\ chart_type' = w.chart
    /\ show_data' = w.show
    /\ LoadSection(w, NormalizeColumns(rawColumns))

\* One run of the script, top to bottom, with the widget values w the
\* session holds: w.year, w.region, w.metrics, w.chart, w.show, w.generate.
Script(w) ==
    /\ UNCHANGED file
    /\ metrics_sel' = w.metrics
    /\ chart_type' = w.chart
    /\ show_data' = w.show
    /\ IF ~fileExists
       THEN \* lines 45-47: st.error, st.stop
            /\ pc' = "stopped_error"
            /\ out' = [NoOutput EXCEPT !.error = TRUE]
            /\ columns' = <<>> /\ df' = <<>> /\ years' = <<>> /\ regions' = <<>>
            /\ df_filtered' = <<>>
            /\ year_sel' = w.year /\ region_sel' = w.region /\ generate' = FALSE
            /\ warned' = warned
       ELSE LoadSection(w, NormalizeColumns(rawColumns))

\* the widget values the session holds, the button not pressed
Held == [year |-> year_sel, region |-> region_sel, metrics |-> metrics_sel,
         chart |-> chart_type, show |-> show_data, generate |-> FALSE]

\* the sidebar was drawn by the last run
ControlsOffered == regions # <<>>

\* the selections of the multiselect the model tries, in the order picked
MetricChoices == {<<>>, <<"EV_Share_pct">>,
                  <<"Oil_Demand_mbd", "Global_PM25_ug_m3", "EV_Share_pct">>}

\* ---------------------------------------------------------------- actions
\* the page is opened
FirstRun ==
    /\ pc = "start"
    /\ Script(Held)

\* the user reruns the script without touching a widget
Rerun ==
    /\ pc # "start"
    /\ Script(Held)

SelectYear ==
    /\ ControlsOffered
    /\ \E i \in 1..Len(years) :
          /\ Some(years[i]) # year_sel
          /\ Script([Held EXCEPT !.year = Some(years[i])])

SelectRegion ==
    /\ ControlsOffered
    /\ \E i \in 1..Len(regions) :
          /\ regions[i] # region_sel
          /\ Script([Held EXCEPT !.region = regions[i]])

SelectMetrics ==
    /\ ControlsOffered
    /\ \E m \in MetricChoices :
          /\ m # metrics_sel
          /\ Script([Held EXCEPT !.metrics = m])

SelectChartType ==
    /\ ControlsOffered
    /\ \E i \in 1..Len(ChartTypes) :
          /\ ChartTypes[i] # chart_type
          /\ Script([Held EXCEPT !.chart = ChartTypes[i]])

ToggleShowData ==
    /\ ControlsOffered
    /\ Script([Held EXCEPT !.show = ~show_data])

ClickGenerate ==
    /\ ControlsOffered
    /\ Script([Held EXCEPT !.generate = TRUE])

Next ==
    \/ FirstRun
    \/ Rerun
    \/ SelectYear
    \/ SelectRegion
    \/ SelectMetrics
    \/ SelectChartType
    \/ ToggleShowData
    \/ ClickGenerate

\* ------------------------------------------------------------ input files
LowerHeaders == <<Lower(cYear), Lower(cMonth), Lower(cRegion),
                  Lower(cEV), Lower(cOil), Lower(cPM)>>

RawRow(y, m, reg, ev, oil, pm) ==
    [Year |-> y, Month |-> m, Region |-> reg,
     EV_Share_pct |-> ev, Oil_Demand_mbd |-> oil, Global_PM25_ug_m3 |-> pm]

\* the data rows the model builds its files from: two rows of 2020 whose
\* EV and oil averages sit on the thresholds 10 and 70, the second with a
\* padded Region and no PM2.5 value; a row of 2021 with no Region and no
\* metric; a row with no Year; a row whose Year is no whole number
RowPool ==
    {RawRow(IntCell(2020), IntCell(1), Some(<<"X">>), IntCell(5), FracCell(70), IntCell(26)),
     RawRow(IntCell(2020), IntCell(2), Some(<<" ", "Y", " ">>), IntCell(15), FracCell(69), TextCell),
     RawRow(IntCell(2021), EmptyCell, Null, TextCell, EmptyCell, TextCell),
     RawRow(EmptyCell, IntCell(3), Some(<<"Y">>), IntCell(15), TextCell, IntCell(25)),
     RawRow(FracCell(2020), IntCell(1), Some(<<"X">>), IntCell(5), IntCell(70), IntCell(25))}

RECURSIVE SeqsUpTo(_, _)
SeqsUpTo(S, n) ==
    IF n = 0 THEN {<<>>}
    ELSE LET shorter == SeqsUpTo(S, n - 1)
         IN shorter \cup {Append(s, x) : s \in {t \in shorter : Len(t) = n - 1}, x \in S}

\* the state before the page is opened; the widgets hold their defaults
InitSession ==
    /\ pc = "start"
    /\ columns = <<>> /\ df = <<>> /\ years = <<>> /\ regions = <<>>
    /\ year_sel = Null
    /\ region_sel = sAll
    /\ metrics_sel = <<"EV_Share_pct">>
    /\ chart_type = "Line"
    /\ show_data = FALSE
    /\ generate = FALSE
    /\ df_filtered = <<>>
    /\ out = NoOutput
    /\ warned = FALSE

\* the file is missing, or holds the expected header row and some rows
Init ==
    /\ \/ /\ fileExists = FALSE
          /\ rawColumns = <<>> /\ rawRows = <<>> /\ strKeepsNull = FALSE
       \/ /\ fileExists = TRUE
          /\ rawColumns = LowerHeaders
          /\ rawRows \in SeqsUpTo(RowPool, MaxRows)
          /\ strKeepsNull \in BOOLEAN
          \* the two libraries differ only on a missing Region cell
          /\ strKeepsNull => \E i \in 1..Len(rawRows) : rawRows[i].Region = Null
    /\ InitSession

Spec == Init /\ [][Next]_vars

\* ----------------------------------------------------------- header rows
\* the runs of padding around a header: spaces and byte-order-marks
Pads == SeqsUpTo({" ", BOM}, MaxPad)

\* the header rows with one header padded and recased
HeaderRows ==
    {[Canonical EXCEPT ![i] = pre \o Lower(Canonical[i]) \o post] :
        i \in 1..Len(Canonical), pre \in Pads, post \in Pads}
    \cup {[Canonical EXCEPT ![i] = pre \o Upper(Canonical[i])] :
        i \in 1..Len(Canonical), pre \in Pads}

ExampleRows ==
    <<RawRow(IntCell(2020), IntCell(1), Some(<<"X">>), IntCell(5), IntCell(70), IntCell(25))>>

InitHeaders ==
    /\ fileExists = TRUE
    /\ rawColumns \in HeaderRows
    /\ rawRows = ExampleRows
    /\ strKeepsNull = FALSE
    /\ InitSession

\* the page is opened and rerun, no widget is touched
NextHeaders ==
    \/ FirstRun
    \/ Rerun

SpecHeaders == InitHeaders /\ [][NextHeaders]_vars

\* ----------------------------------------------------------- properties
\* the last run drew the sidebar and reached the filter
Loaded == pc \in {"done", "stopped_warning"}

\* the last run put no average, chart, insight or dataset on the page
QuietPage ==
    /\ out.metrics = <<>>
    /\ out.charts = <<>>
    /\ out.insights = <<>>
    /\ ~out.dump

\* the row satisfies the filter criterion (year, region)
Matches(row, year, region) ==
    /\ row.Year # Null
    /\ row.Year = year
    /\ region # sAll => (row.Region # Null /\ row.Region[1] = region)

\* view holds exactly the rows of table that satisfy the criterion, each
\* once and in the order of table
IsSelection(view, table, year, region) ==
    LET M == {i \in 1..Len(table) : Matches(table[i], year, region)}
    IN /\ Len(view) = Cardinality(M)
       /\ \A i \in M : view[Cardinality({j \in M : j <= i})] = table[i]

YearInputs == {Null} \cup {Some(y) : y \in 2019..2022}
RegionInputs == {sAll, <<"X">>, <<"Y">>, <<"Z">>, sNan}

\* C1: for every year and region, also ones the Table does not hold, the
\* filter returns exactly the rows whose Year equals the year and, unless
\* the region is "All", whose Region equals the region, in Table order and
\* each once; the View of the run is that selection for the chosen values.
C1_FilterSelectsExactly ==
    Loaded =>
        /\ IsSelection(df_filtered, df, year_sel, region_sel)
        /\ \A y \in YearInputs, r \in RegionInputs :
              IsSelection(Filter(df, y, r), df, y, r)

\* C1 witness: two rows of the selected year, the second dropped by Region
C1_Witness ==
    /\ Loaded
    /\ Len(df) = 2
    /\ df[1].Year = year_sel /\ df[2].Year = year_sel
    /\ region_sel = <<"X">>
    /\ df[2].Region # Some(<<"X">>)
    /\ df_filtered = <<df[1]>>

\* C2: a run for which the Generate button was not pressed puts no
\* average, no chart, no insight and no dataset on the page.
C2_NoOutputWithoutGenerate == generate = FALSE => QuietPage

\* C2 witness: every other widget was changed, the button was not pressed
C2_Witness ==
    /\ pc = "done"
    /\ ~generate
    /\ year_sel = Some(2021)
    /\ region_sel # sAll
    /\ Len(metrics_sel) = 3
    /\ chart_type = "Pie"
    /\ show_data
    /\ QuietPage

\* the page of a generated run over a View with rows
RenderedNormally ==
    /\ pc = "done"
    /\ ~out.warning /\ ~out.error /\ out.raised = ""
    /\ Len(out.metrics) = 3
    /\ Len(out.insights) = 3
    /\ Len(out.charts) = Len(metrics_sel)
    /\ out.dump = show_data

\* C3: a run whose View is empty shows the warning, raises nothing and
\* puts no chart, average or insight on the page; the Table of the next
\* run is the same; and a generated run over a View with rows, after a
\* warning in the session, renders as usual.
C3_EmptyViewWarnsAndRecovers ==
    /\ []((Loaded /\ df_filtered = <<>>) =>
            (pc = "stopped_warning" /\ out.warning /\ out.raised = ""
             /\ ~out.error /\ QuietPage))
    /\ []((warned /\ generate /\ df_filtered # <<>>) => RenderedNormally)
    /\ [][pc = "stopped_warning" => df' = df]_vars

\* C3 witness: a generated page after an earlier warning
C3_Witness ==
    /\ warned
    /\ generate
    /\ df_filtered # <<>>
    /\ Len(out.insights) = 3

\* C4: with the file missing, every run reports the error and stops: no
\* Table, no control, no View, no output.
C4_MissingFileHalts ==
    (~fileExists /\ pc # "start") =>
        /\ pc = "stopped_error"
        /\ out.error /\ ~out.warning /\ out.raised = ""
        /\ QuietPage
        /\ columns = <<>> /\ df = <<>>
        /\ years = <<>> /\ regions = <<>>
        /\ df_filtered = <<>>

\* C4 witness: the page was opened with the file missing
C4_Witness == ~fileExists /\ pc = "stopped_error" /\ out.error

\* C5: a generated run shows one chart per selected metric for Line, Bar,
\* Area, Scatter and Pie, and exactly one correlation matrix for Heatmap
\* whatever the metric selection.
C5_ChartsPerKind ==
    (pc = "done" /\ generate) =>
        IF chart_type = "Heatmap"
        THEN out.charts = <<[kind |-> "Heatmap", y |-> "corr"]>>
        ELSE /\ Len(out.charts) = Len(metrics_sel)
             /\ \A i \in 1..Len(metrics_sel) :
                   out.charts[i] = [kind |-> chart_type, y |-> metrics_sel[i]]

\* C6: a header row of the six alias names, in any casing and with any
\* whitespace and byte-order-marks around them, normalises to the six
\* canonical names, and the load completes.
C6_HeadersNormalised == pc # "start" => (columns = Canonical /\ out.raised = "")

\* the Table cell of a raw numeric cell: null when the cell is no number,
\* else its value (whole for Year and Month, in halves for the metrics)
CellKept(raw, cell, whole) ==
    CASE raw.kind \in {"text", "empty"} -> cell = Null
      [] raw.kind = "int" -> cell = Some(IF whole THEN raw.val ELSE 2 * raw.val)
      [] raw.kind = "frac" -> cell = Some(2 * raw.val + 1) /\ ~whole

\* C7: for an existing file the load raises nothing whatever the cells:
\* a cell that is no number is null in the Table, a number keeps its value.
C7_LoadNeverRaises ==
    (fileExists /\ pc # "start") =>
        /\ out.raised = ""
        /\ Len(df) = Len(rawRows)
        /\ \A i \in 1..Len(rawRows) :
              /\ CellKept(rawRows[i].Year, df[i].Year, TRUE)
              /\ CellKept(rawRows[i].Month, df[i].Month, TRUE)
              /\ \A k \in 1..Len(MetricColumns) :
                    CellKept(rawRows[i][MetricColumns[k]], df[i][MetricColumns[k]], FALSE)

\* the rows of the View with a value in the column
Present(col) == {i \in 1..Len(df_filtered) : df_filtered[i][col] # Null}

\* the sum, in halves, of the column over the rows I of the View
RECURSIVE Total(_, _)
Total(I, col) ==
    IF I = {} THEN 0
    ELSE LET i == CHOOSE x \in I : TRUE
         IN df_filtered[i][col][1] + Total(I \ {i}, col)

\* the average of the column is defined and above k
Above(col, k) ==
    /\ Present(col) # {}
    /\ Total(Present(col), col) > 2 * k * Cardinality(Present(col))

\* C8: a generated run yields three insights, in the order EV, oil, PM2.5,
\* each the first message exactly when the average of its column is
\* defined and strictly above 10, 70 and 25.
C8_InsightsByStrictThreshold ==
    (pc = "done" /\ generate) =>
        out.insights =
            <<IF Above("EV_Share_pct", 10) THEN evHigh ELSE evLow,
              IF Above("Oil_Demand_mbd", 70) THEN oilHigh ELSE oilLow,
              IF Above("Global_PM25_ug_m3", 25) THEN pmHigh ELSE pmLow>>

\* C8 witness: the EV average is exactly 10 and the oil average is above 70
C8_Witness ==
    /\ pc = "done" /\ generate
    /\ Present("EV_Share_pct") # {}
    /\ Total(Present("EV_Share_pct"), "EV_Share_pct")
          = 20 * Cardinality(Present("EV_Share_pct"))
    /\ out.insights[1] = evLow

\* the displayed value d is "nan" when the column has no value in the
\* View, else the hundredth nearest to sum / count of its values
ShowsMean(d, col) ==
    LET c == Cardinality(Present(col))
        n == Total(Present(col), col)
        gap == 100 * n - 2 * c * d.cents
    IN IF c = 0 THEN d.nan
       ELSE ~d.nan /\ gap <= c /\ -gap <= c

\* C9: a generated run displays, for each metric column, the sum of the
\* non-null values over their number (to two decimals), "nan" when all are
\* null, and raises nothing.
C9_AverageSkipsNulls ==
    (pc = "done" /\ generate) =>
        /\ out.raised = ""
        /\ Len(out.metrics) = 3
        /\ \A k \in 1..3 : ShowsMean(out.metrics[k], MetricColumns[k])

\* C9 witness: a column with a null and a non-null value in the View, and
\* the EV values 5 and 15 shown as 10.00
C9_Witness ==
    /\ pc = "done" /\ generate
    /\ Len(df_filtered) = 2
    /\ Cardinality(Present("Global_PM25_ug_m3")) = 1
    /\ df_filtered[1].EV_Share_pct = Some(10)
    /\ df_filtered[2].EV_Share_pct = Some(30)
    /\ out.metrics[1] = [nan |-> FALSE, cents |-> 1000]

\* the trimmed Region cells the input holds
InputRegions ==
    {Strip(rawRows[i].Region[1]) : i \in {j \in 1..Len(rawRows) : rawRows[j].Region # Null}}

\* the whole numbers the Year cells of the input hold
InputYears ==
    {rawRows[i].Year.val : i \in {j \in 1..Len(rawRows) : rawRows[j].Year.kind = "int"}}

\* C10: the Year control offers the distinct Year values of the input in
\* ascending order, the Region control "All" and then the distinct Region
\* values of the input in ascending order; a missing cell adds no option.
C10_OptionsAreInputValues ==
    Loaded =>
        /\ {years[i] : i \in 1..Len(years)} = InputYears
        /\ \A i, j \in 1..Len(years) : i < j => years[i] < years[j]
        /\ regions[1] = sAll
        /\ {regions[i] : i \in 2..Len(regions)} = InputRegions
        /\ \A i, j \in 2..Len(regions) : i < j => StrLess(regions[i], regions[j])

====
